---------------------------- MODULE Spec2Model ----------------------------
(***************************************************************************)
(* Model of src/src/audio_processor/compilador.py: the schema Trie, the    *)
(* lexer, the parser, the operator normaliser, the SQL generator and the   *)
(* interactive corrector.  Text is modelled by TLA+ strings, on which TLC  *)
(* evaluates Len, \o and SubSeq character by character.                    *)
(***************************************************************************)
EXTENDS Integers, Sequences, FiniteSets, TLC

VARIABLES
    esquema,          \* the content of the schema file, None when it is missing
    trie,             \* Trie: the node table reachable from Trie.root
    inserted,         \* history: the words Trie.insert was called with
    n_ops,            \* history: number of Trie.insert calls so far
    pc,               \* position of the running program
    texto,            \* compilador_nl2sql_texto: the input text
    tokens,           \* analisis_lexico's result
    i,                \* analisis_sintactico: the cursor (0-indexed)
    estructura,       \* the structured query (dict "estructura")
    consulta_sql,     \* the SQL text last returned by generar_sql
    llamadas,         \* history: number of generar_sql calls so far
    revisiones,       \* revisar_y_sugerir_traduccion: list "revisiones"
    r,                \* index (1-based) of the revision awaiting a choice
    nueva_sql_query,  \* revisar_y_sugerir_traduccion: the SQL being patched
    elecciones,       \* history: the valid choice applied to each revision
    reintentos,       \* history: rejected responses for the current revision
    respuesta,        \* history: the last text input() returned
    opciones,         \* revisar_y_sugerir_traduccion: list "opciones"
    op_texto,         \* _reemplazar_operadores_compuestos: local "texto"
    op_frase,         \* history: the phrase it was called with
    op_k              \* index (1-based) of the next entry of "mapeo"

vars == <<esquema, trie, inserted, n_ops, pc, texto, tokens, i, estructura,
          consulta_sql, llamadas, revisiones, r, nueva_sql_query,
          elecciones, reintentos, respuesta, opciones, op_texto, op_frase, op_k>>

trieVars == <<esquema, trie, inserted, n_ops>>
pipeVars == <<texto, tokens, i, estructura>>
sqlVars  == <<consulta_sql, llamadas>>
revVars  == <<revisiones, r, nueva_sql_query, elecciones, reintentos, respuesta,
             opciones>>
opVars   == <<op_texto, op_frase, op_k>>

(***************************************************************************)
(* Python values and string methods                                        *)
(***************************************************************************)

\* Python's None; no token equals it (tokens are lower-case and stripped
\* of surrounding punctuation).
None == "<None>"

Ch(s, k) == SubSeq(s, k, k)

Max(a, b) == IF a >= b THEN a ELSE b

Digits == {"0", "1", "2", "3", "4", "5", "6", "7", "8", "9"}

AsciiLower == {"a", "b", "c", "d", "e", "f", "g", "h", "i", "j", "k", "l", "m",
               "n", "o", "p", "q", "r", "s", "t", "u", "v", "w", "x", "y", "z"}

AsciiUpper == {"A", "B", "C", "D", "E", "F", "G", "H", "I", "J", "K", "L", "M",
               "N", "O", "P", "Q", "R", "S", "T", "U", "V", "W", "X", "Y", "Z"}

\* string.punctuation, but for the backquote, which a TLA+ string cannot hold
\* (no text of the model holds one)
Punctuation == {"!", "\"", "#", "$", "%", "&", "'", "(", ")", "*", "+", ",",
                "-", ".", "/", ":", ";", "<", "=", ">", "?", "@", "[", "\\",
                "]", "^", "_", "{", "|", "}", "~"}

\* str.split()'s separators
Whitespace == {" ", "\t", "\n", "\r"}

\* the regular expression class \w: every character of the texts handled
\* here that is neither punctuation other than "_" nor whitespace
IsWordChar(c) == c # "" /\ c \notin Whitespace /\ (c \notin Punctuation \/ c = "_")

\* str.isdigit(): non-empty and every character a digit
IsDigit(s) == Len(s) > 0 /\ \A k \in 1..Len(s) : Ch(s, k) \in Digits

UpperChars == "ABCDEFGHIJKLMNOPQRSTUVWXYZÁÉÍÓÚÑ"
LowerChars == "abcdefghijklmnopqrstuvwxyzáéíóúñ"

LowerCh(c) ==
    IF \E k \in 1..Len(UpperChars) : Ch(UpperChars, k) = c
    THEN Ch(LowerChars, CHOOSE k \in 1..Len(UpperChars) : Ch(UpperChars, k) = c)
    ELSE c

RECURSIVE Lower(_)
\* str.lower()
Lower(s) == IF s = "" THEN "" ELSE LowerCh(Ch(s, 1)) \o Lower(SubSeq(s, 2, Len(s)))

RECURSIVE Join(_, _)
\* sep.join(parts)
Join(parts, sep) ==
    IF Len(parts) = 0 THEN ""
    ELSE IF Len(parts) = 1 THEN parts[1]
    ELSE parts[1] \o sep \o Join(Tail(parts), sep)

\* whether s holds p at position k (1-based)
HasAt(s, k, p) == k >= 1 /\ k + Len(p) - 1 <= Len(s) /\ SubSeq(s, k, k + Len(p) - 1) = p

\* str.find from position k: the first position >= k holding p, or 0
Find(s, p, k) ==
    IF \E j \in k..Len(s) : HasAt(s, j, p)
    THEN CHOOSE j \in k..Len(s) : HasAt(s, j, p) /\ \A h \in k..(j - 1) : ~HasAt(s, h, p)
    ELSE 0

RECURSIVE ReplaceFrom(_, _, _, _, _)
\* str.replace(old, new, count) on the text from position k on; count < 0: all
ReplaceFrom(s, old, new, count, k) ==
    LET j == Find(s, old, k) IN
    IF count = 0 \/ j = 0 THEN SubSeq(s, k, Len(s))
    ELSE SubSeq(s, k, j - 1) \o new \o ReplaceFrom(s, old, new, count - 1, j + Len(old))

\* str.replace(old, new)
Replace(s, old, new) == ReplaceFrom(s, old, new, -1, 1)

\* str.replace(old, new, 1)
ReplaceFirst(s, old, new) == ReplaceFrom(s, old, new, 1, 1)

RECURSIVE LStrip(_, _)
LStrip(s, chars) ==
    IF s # "" /\ Ch(s, 1) \in chars THEN LStrip(SubSeq(s, 2, Len(s)), chars) ELSE s

RECURSIVE RStrip(_, _)
\* str.rstrip(chars)
RStrip(s, chars) ==
    IF s # "" /\ Ch(s, Len(s)) \in chars THEN RStrip(SubSeq(s, 1, Len(s) - 1), chars) ELSE s

\* str.strip(chars)
Strip(s, chars) == RStrip(LStrip(s, chars), chars)

RECURSIVE SplitFrom(_, _, _)
\* str.split(): the maximal runs of non-whitespace, in order
SplitFrom(s, k, cur) ==
    IF k > Len(s) THEN (IF cur = "" THEN <<>> ELSE <<cur>>)
    ELSE IF Ch(s, k) \in Whitespace
         THEN (IF cur = "" THEN <<>> ELSE <<cur>>) \o SplitFrom(s, k + 1, "")
         ELSE SplitFrom(s, k + 1, cur \o Ch(s, k))

Split(s) == SplitFrom(s, 1, "")

\* the regular expression \b between positions k and k+1 of s
WordBoundary(s, k) ==
    IsWordChar(IF k >= 1 /\ k <= Len(s) THEN Ch(s, k) ELSE "")
        # IsWordChar(IF k + 1 <= Len(s) THEN Ch(s, k + 1) ELSE "")

\* a match of r'\b' + re.escape(lit) + r'\b' at position k
WordMatchAt(s, k, lit) ==
    HasAt(s, k, lit) /\ WordBoundary(s, k - 1) /\ WordBoundary(s, k + Len(lit) - 1)

RECURSIVE ReSubFrom(_, _, _, _, _)
\* re.sub(r'\b' + re.escape(lit) + r'\b', repl, s, count) from position k
\* on; count = 0 replaces every match, as in re.sub
ReSubFrom(s, lit, repl, count, k) ==
    IF \E j \in k..Len(s) : WordMatchAt(s, j, lit)
    THEN LET j == CHOOSE j \in k..Len(s) :
                      WordMatchAt(s, j, lit) /\ \A h \in k..(j - 1) : ~WordMatchAt(s, h, lit)
         IN SubSeq(s, k, j - 1) \o repl \o
            (IF count = 1 THEN SubSeq(s, j + Len(lit), Len(s))
             ELSE ReSubFrom(s, lit, repl, Max(count - 1, 0), j + Len(lit)))
    ELSE SubSeq(s, k, Len(s))

ReSubWord(s, lit, repl, count) == ReSubFrom(s, lit, repl, count, 1)

\* the elements of a sequence
Range(seq) == {seq[k] : k \in 1..Len(seq)}

(***************************************************************************)
(* Trie                                                                    *)
(***************************************************************************)

\* Nodes are numbered in creation order; node 1 is Trie.root.  children[n]
\* is the dict of node n, kept in insertion order as <<char, node>> pairs.
Root == 1

EmptyTrie == [children |-> << <<>> >>, is_end_of_word |-> <<FALSE>>]

HasChild(t, node, c) == \E k \in 1..Len(t.children[node]) : t.children[node][k][1] = c

Child(t, node, c) ==
    t.children[node][CHOOSE k \in 1..Len(t.children[node]) : t.children[node][k][1] = c][2]

RECURSIVE InsertWalk(_, _, _, _)
InsertWalk(t, node, word, k) ==
    IF k > Len(word) THEN [t EXCEPT !.is_end_of_word[node] = TRUE]
    ELSE LET c == Ch(word, k) IN
         IF HasChild(t, node, c) THEN InsertWalk(t, Child(t, node, c), word, k + 1)
         ELSE LET new == Len(t.children) + 1
                  t2  == [children |->
                              Append([t.children EXCEPT ![node] = Append(@, <<c, new>>)], <<>>),
                          is_end_of_word |-> Append(t.is_end_of_word, FALSE)]
              IN InsertWalk(t2, new, word, k + 1)

TrieInsert(t, word) == InsertWalk(t, Root, word, 1)

RECURSIVE SearchWalk(_, _, _, _)
SearchWalk(t, node, word, k) ==
    IF k > Len(word) THEN t.is_end_of_word[node]
    ELSE IF ~HasChild(t, node, Ch(word, k)) THEN FALSE
    ELSE SearchWalk(t, Child(t, node, Ch(word, k)), word, k + 1)

SearchAsStartsWith(t, word) ==
    LET RECURSIVE W(_, _)
        W(node, k) == IF k > Len(word) THEN TRUE
                      ELSE IF ~HasChild(t, node, Ch(word, k)) THEN FALSE
                      ELSE W(Child(t, node, Ch(word, k)), k + 1)
    IN W(Root, 1)

TrieSearch(t, word) == SearchWalk(t, Root, word, 1)

RECURSIVE CollectWords(_, _, _)
RECURSIVE CollectChildren(_, _, _, _)
\* get_all_words(node, prefix, words): what the call appends to "words",
\* in order: the prefix, when the node ends a word, then the words below
\* each child
CollectWords(t, node, prefix) ==
    (IF t.is_end_of_word[node] THEN <<prefix>> ELSE <<>>)
        \o CollectChildren(t, node, prefix, 1)

\* the loop over node.children.items(), from the k-th item on
CollectChildren(t, node, prefix, k) ==
    IF k > Len(t.children[node]) THEN <<>>
    ELSE CollectWords(t, t.children[node][k][2], prefix \o t.children[node][k][1])
             \o CollectChildren(t, node, prefix, k + 1)

GetAllWordsNoFlag(t) ==
    LET RECURSIVE W(_, _)
        RECURSIVE K(_, _, _)
        W(node, prefix) == <<prefix>> \o K(node, prefix, 1)
        K(node, prefix, k) ==
            IF k > Len(t.children[node]) THEN <<>>
            ELSE W(t.children[node][k][2], prefix \o t.children[node][k][1])
                     \o K(node, prefix, k + 1)
    IN W(Root, "")

\* get_all_words()
GetAllWords(t) == CollectWords(t, Root, "")

(***************************************************************************)
(* Dates: FORMATOS_FECHA, es_fecha, and the reparse of generar_sql         *)
(***************************************************************************)

\* a full match of a pattern of \d and literal characters, written with
\* "d" for \d (the first three entries of FORMATOS_FECHA)
MatchesShape(s, shape) ==
    /\ Len(s) = Len(shape)
    /\ \A k \in 1..Len(s) :
           IF Ch(shape, k) = "d" THEN Ch(s, k) \in Digits ELSE Ch(s, k) = Ch(shape, k)

AllIn(s, from, to, chars) == \A k \in from..to : Ch(s, k) \in chars

\* the positions at which a match of r"\d{1,2} de [a-z]+ de \d{4}" that
\* starts at the first character of s can end
LongDateEnds(s) ==
    {d + m + 12 : <<d, m>> \in
        {dm \in (1..2) \X (1..Len(s)) :
            /\ dm[1] + dm[2] + 12 <= Len(s)
            /\ AllIn(s, 1, dm[1], Digits)
            /\ HasAt(s, dm[1] + 1, " de ")
            /\ AllIn(s, dm[1] + 5, dm[1] + 4 + dm[2], AsciiLower)
            /\ HasAt(s, dm[1] + dm[2] + 5, " de ")
            /\ AllIn(s, dm[1] + dm[2] + 9, dm[1] + dm[2] + 12, Digits)}}

\* re.fullmatch of the fourth entry of FORMATOS_FECHA
LongDateFullMatch(s) == Len(s) \in LongDateEnds(s)

\* re.match of the same pattern, as generar_sql uses it
LongDateMatch(s) == LongDateEnds(s) # {}

es_fecha(t) ==
    LET s == Lower(t) IN
    \/ MatchesShape(s, "dddd-dd-dd")
    \/ MatchesShape(s, "dd/dd/dddd")
    \/ MatchesShape(s, "dd-dd-dddd")
    \/ LongDateFullMatch(s)

DigitVal(c) == CHOOSE n \in 0..9 : Ch("0123456789", n + 1) = c

RECURSIVE ToNat(_)
\* int() of a string of digits
ToNat(s) == IF s = "" THEN 0 ELSE 10 * ToNat(SubSeq(s, 1, Len(s) - 1)) + DigitVal(Ch(s, Len(s)))

RECURSIVE NatStr(_)
NatStr(n) == IF n < 10 THEN Ch("0123456789", n + 1) ELSE NatStr(n \div 10) \o Ch("0123456789", (n % 10) + 1)

\* %m and %d of strftime: two digits
Pad2(n) == IF n < 10 THEN "0" \o NatStr(n) ELSE NatStr(n)

\* %B of strptime: the month names of the C locale, which the program never
\* changes (no setlocale call), matched ignoring case
MonthNames == <<"january", "february", "march", "april", "may", "june", "july",
                "august", "september", "october", "november", "december">>

IsLeap(y) == y % 4 = 0 /\ (y % 100 # 0 \/ y % 400 = 0)

DaysIn(m, y) ==
    IF m = 2 THEN (IF IsLeap(y) THEN 29 ELSE 28)
    ELSE IF m \in {4, 6, 9, 11} THEN 30 ELSE 31

\* datetime.strptime(valor, "%d de %B de %Y").strftime("%Y-%m-%d"), or None
\* where strptime raises ValueError
ReparseFecha(valor) ==
    LET p == Split(valor) IN
    IF /\ Len(p) = 5 /\ Join(p, " ") = valor
       /\ Lower(p[2]) = "de" /\ Lower(p[4]) = "de"
       /\ Len(p[1]) \in 1..2 /\ IsDigit(p[1])
       /\ p[1] \notin {"0", "00"} /\ ToNat(p[1]) <= 31
       /\ \E m \in 1..12 : MonthNames[m] = Lower(p[3])
       /\ Len(p[5]) = 4 /\ IsDigit(p[5]) /\ ToNat(p[5]) >= 1
    THEN LET m == CHOOSE m \in 1..12 : MonthNames[m] = Lower(p[3])
             d == ToNat(p[1])
             y == ToNat(p[5])
         IN IF d <= DaysIn(m, y) THEN NatStr(y) \o "-" \o Pad2(m) \o "-" \o Pad2(d) ELSE None
    ELSE None

(***************************************************************************)
(* generar_sql                                                             *)
(***************************************************************************)

SqlSentinel == "-- No se puede generar consulta SQL: entidad desconocida."

EntidadNuncaDesconocida(e) == FALSE

\* "not estructura['entidad']"
EntidadDesconocida(e) == e.entidad = None \/ e.entidad = ""

EsNumericoSinPuntos(valor) == IsDigit(Replace(valor, ".", ""))

\* valor.replace(".", "", 1).isdigit()
EsNumerico(valor) == IsDigit(ReplaceFirst(valor, ".", ""))

\* the branch "Conversión de fecha con formato largo"
EsFechaLarga(cond) == cond.atributo = "fecha" /\ LongDateMatch(cond.valor)

\* the local "valor" after the try/except of the date branch
ValorFecha(valor) == IF ReparseFecha(valor) = None THEN valor ELSE ReparseFecha(valor)

\* one iteration of the loop over estructura["condiciones"]: the text it
\* appends to "condiciones"
CondSql(cond) ==
    IF EsFechaLarga(cond)
    THEN cond.atributo \o " " \o cond.operador \o " DATE('" \o ValorFecha(cond.valor) \o "')"
    ELSE IF EsNumerico(cond.valor)
         THEN cond.atributo \o " " \o cond.operador \o " " \o cond.valor
         ELSE cond.atributo \o " " \o cond.operador \o " '" \o cond.valor \o "'"

CondTrasIterarReescrita(cond) ==
    IF EsFechaLarga(cond) THEN [cond EXCEPT !.valor = ValorFecha(cond.valor)] ELSE cond

\* the same iteration: the dict "cond" after it (the iteration rebinds the
\* local "valor" and never writes to the dict)
CondTrasIterar(cond) == cond

SelectFrom(e) ==
    IF e.atributos_mostrar # <<>>
    THEN "SELECT " \o Join(e.atributos_mostrar, ", ") \o " FROM " \o e.entidad
    ELSE "SELECT * FROM " \o e.entidad

\* generar_sql(estructura): the text returned
generar_sql(e) ==
    IF EntidadDesconocida(e) THEN SqlSentinel
    ELSE LET condiciones == [k \in 1..Len(e.condiciones) |-> CondSql(e.condiciones[k])]
         IN IF condiciones # <<>>
            THEN SelectFrom(e) \o " WHERE " \o Join(condiciones, " AND ")
            ELSE SelectFrom(e)

\* generar_sql(estructura): the dict after the call
EstructuraTrasGenerar(e) ==
    IF EntidadDesconocida(e) THEN e
    ELSE [e EXCEPT !.condiciones =
              [k \in 1..Len(e.condiciones) |-> CondTrasIterar(e.condiciones[k])]]

(***************************************************************************)
(* SpecTrie: a Trie under any sequence of insert calls                     *)
(***************************************************************************)

\* the longest insert sequence explored
MaxInserts == 4

TrieWords == {"", "a", "b", "ab", "ba", "aa", "abé"}

IdlePipe ==
    /\ texto = "" /\ tokens = <<>> /\ i = 0
    /\ estructura = [accion |-> None, entidad |-> None,
                     atributos_mostrar |-> <<>>, condiciones |-> <<>>]
IdleSql == consulta_sql = "" /\ llamadas = 0
IdleRev ==
    /\ revisiones = <<>> /\ r = 0 /\ nueva_sql_query = ""
    /\ elecciones = <<>> /\ reintentos = 0 /\ respuesta = "" /\ opciones = <<>>
IdleOp == op_texto = "" /\ op_frase = "" /\ op_k = 0

InitTrie ==
    /\ esquema = None /\ trie = EmptyTrie /\ inserted = {} /\ n_ops = 0
    /\ pc = "trie"
    /\ IdlePipe /\ IdleSql /\ IdleRev /\ IdleOp

Insert(w) ==
    /\ pc = "trie"
    /\ n_ops < MaxInserts
    /\ trie' = TrieInsert(trie, w)
    /\ inserted' = inserted \cup {w}
    /\ n_ops' = n_ops + 1
    /\ UNCHANGED <<esquema, pc, pipeVars, sqlVars, revVars, opVars>>

NextTrie == \E w \in TrieWords : Insert(w)

SpecTrie == InitTrie /\ [][NextTrie]_vars

\* C2: a word is found by search exactly when insert was called with it:
\* from the insert on and whatever is inserted later, and never for a word
\* (such as a proper prefix of an inserted word) that was not inserted.
C2_MembershipPermanent ==
    \A w \in TrieWords : TrieSearch(trie, w) <=> w \in inserted

\* "ab" was inserted, two more inserts followed, its prefix "a" was not
C2_Witness ==
    /\ "ab" \in inserted /\ "a" \notin inserted /\ n_ops >= 3
    /\ Cardinality(inserted) >= 2
    /\ TrieSearch(trie, "ab") /\ ~TrieSearch(trie, "a")

\* C3: get_all_words lists exactly the inserted words, each once, in every
\* state (so for every insertion order and repetition), and inserting a
\* word that is already there leaves the list as it was.
C3_EnumerateExact ==
    /\ [](/\ Range(GetAllWords(trie)) = inserted
          /\ Len(GetAllWords(trie)) = Cardinality(inserted))
    /\ [][inserted' = inserted => GetAllWords(trie') = GetAllWords(trie)]_vars

\* three distinct words are in, one of them inserted twice
C3_Witness ==
    /\ Cardinality(inserted) = 3 /\ n_ops = 4
    /\ {"ab", "a"} \subseteq inserted
    /\ Len(GetAllWords(trie)) = 3

(***************************************************************************)
(* SpecSql: generar_sql called repeatedly on any structured query          *)
(***************************************************************************)

\* the longest list of conditions explored
MaxConds == 2

\* the number of generar_sql calls explored on one structured query
MaxLlamadas == 2

SeqsUpTo(S, n) == UNION {[1..k -> S] : k \in 0..n}

Cond(a, o, v) == [atributo |-> a, operador |-> o, valor |-> v]

SqlConds ==
    { Cond("edad", ">", "30"), Cond("nombre", "=", "Lucia"),
      Cond("precio", "<=", "3.5"), Cond("precio", "<", "1.2.3"),
      Cond("id", "!=", "."), Cond("id", "=", "x9"),
      Cond("fecha", "=", "21 de july de 2025"),
      Cond("fecha", ">=", "21 de julio de 2025"),
      Cond("fecha", "=", "31 de april de 2025"),
      Cond("fecha", "<", "2025-07-21"), Cond("fecha", "=", "30"),
      Cond("edad", "=", "1 de may de 2024") }

\* generar_sql never reads estructura["accion"]
SqlEstructuras ==
    [accion : {"dame"},
     entidad : {None, "clientes"},
     atributos_mostrar : {<<>>, <<"nombre">>, <<"nombre", "edad">>},
     condiciones : SeqsUpTo(SqlConds, MaxConds)]

InitSql ==
    /\ pc = "sql"
    /\ estructura \in SqlEstructuras
    /\ texto = "" /\ tokens = <<>> /\ i = 0
    /\ esquema = None /\ trie = EmptyTrie /\ inserted = {} /\ n_ops = 0
    /\ IdleSql /\ IdleRev /\ IdleOp

GenerarSqlCall ==
    /\ pc = "sql"
    /\ llamadas < MaxLlamadas
    /\ consulta_sql' = generar_sql(estructura)
    /\ estructura' = EstructuraTrasGenerar(estructura)
    /\ llamadas' = llamadas + 1
    /\ UNCHANGED <<pc, trieVars, texto, tokens, i, revVars, opVars>>

NextSql == GenerarSqlCall

SpecSql == InitSql /\ [][NextSql]_vars

C6_MissingEntitySentinel ==
    (pc = "sql" /\ llamadas >= 1) =>
        IF estructura.entidad = None
        THEN consulta_sql = SqlSentinel /\ ~HasAt(consulta_sql, 1, "SELECT")
        ELSE /\ HasAt(consulta_sql, 1, "SELECT ")
             /\ Find(consulta_sql, " FROM " \o estructura.entidad, 1) > 0

\* the sentinel was returned for a query with attributes and conditions
C6_Witness ==
    /\ pc = "sql" /\ llamadas >= 1 /\ estructura.entidad = None
    /\ estructura.atributos_mostrar # <<>> /\ Len(estructura.condiciones) = 2
    /\ consulta_sql = SqlSentinel

\* a value made of digits and at most one dot, with a digit in it
EsLiteralNumerico(v) ==
    /\ \A k \in 1..Len(v) : Ch(v, k) \in Digits \cup {"."}
    /\ Cardinality({k \in 1..Len(v) : Ch(v, k) = "."}) <= 1
    /\ \E k \in 1..Len(v) : Ch(v, k) \in Digits

\* what C7 says a condition that is not a long-form date renders as
C7_Fragment(c) ==
    IF EsFechaLarga(c) THEN CondSql(c)
    ELSE c.atributo \o " " \o c.operador \o " " \o
         (IF EsLiteralNumerico(c.valor) THEN c.valor ELSE "'" \o c.valor \o "'")

\* C7: a condition that is not a long-form date renders as "attribute
\* operator value", the value bare when it is a number (digits with at most
\* one dot) and in single quotes otherwise; the conditions follow the
\* SELECT ... FROM part in list order joined by " AND ", and "WHERE " is
\* there exactly when there is a condition.
C7_LiteralQuoting ==
    (pc = "sql" /\ llamadas >= 1 /\ estructura.entidad # None) =>
        /\ consulta_sql = SelectFrom(estructura) \o
               (IF estructura.condiciones = <<>> THEN ""
                ELSE " WHERE " \o
                     Join([k \in 1..Len(estructura.condiciones) |->
                               C7_Fragment(estructura.condiciones[k])], " AND "))
        /\ (Find(consulta_sql, "WHERE ", 1) > 0 <=> estructura.condiciones # <<>>)

\* a number, then a value with two dots, rendered bare and quoted
C7_Witness ==
    /\ pc = "sql" /\ llamadas >= 1 /\ estructura.entidad = "clientes"
    /\ estructura.condiciones = <<Cond("edad", ">", "30"), Cond("precio", "<", "1.2.3")>>
    /\ Find(consulta_sql, " WHERE edad > 30 AND precio < '1.2.3'", 1) > 0

(***************************************************************************)
(* _reemplazar_operadores_compuestos                                       *)
(***************************************************************************)

MapeoIgualPrimero ==
    << <<"igual", "=">>, <<"mayor o igual que", ">=">>, <<"menor o igual que", "<=">>,
       <<"mayor que", ">">>, <<"menor que", "<">>, <<"menor a", "<">>,
       <<"igual a", "=">>, <<"no es", "!=">>, <<"diferente de", "!=">> >>

\* the dict "mapeo", in its definition order (the order of mapeo.items())
Mapeo ==
    << <<"mayor o igual que", ">=">>, <<"menor o igual que", "<=">>,
       <<"mayor que", ">">>, <<"menor que", "<">>, <<"menor a", "<">>,
       <<"igual a", "=">>, <<"igual", "=">>, <<"no es", "!=">>,
       <<"diferente de", "!=">> >>

\* one iteration of "for frase, reemplazo in mapeo.items()"
AplicarEntrada(t, k) == ReSubWord(t, Mapeo[k][1], Mapeo[k][2], 0)

RECURSIVE AplicarDesde(_, _)
AplicarDesde(t, k) ==
    IF k > Len(Mapeo) THEN t ELSE AplicarDesde(AplicarEntrada(t, k), k + 1)

\* _reemplazar_operadores_compuestos(texto)
ReemplazarOperadores(t) == AplicarDesde(Lower(t), 1)

\* the operator set the parser tests the normalised phrase against
Operadores == {"=", ">", "<", ">=", "<=", "!=", "<>"}

(***************************************************************************)
(* SpecOp: _reemplazar_operadores_compuestos, one entry of mapeo at a time *)
(***************************************************************************)

\* words as the lexer produces them: lower-case, no surrounding punctuation
OpWords == {"mayor", "menor", "o", "igual", "que", "a", "no", "es",
            "diferente", "de", "edad", "iguales", "x-igual"}

\* the phrases the function is called with: one word, the two-word phrases
\* the parser builds, and longer phrases of the table
Frases ==
    OpWords
    \cup {w[1] \o " " \o w[2] : w \in OpWords \X OpWords}
    \cup {"mayor o igual que", "menor o igual que", "mayor o igual", "o igual que",
          "edad mayor o igual que 30", "no es igual a", "mayor que o igual que",
          "edad es mayor a 30", "menor que menor a", "es diferente de"}

InitOp ==
    /\ pc = "op"
    /\ op_frase \in Frases
    /\ op_texto = Lower(op_frase)
    /\ op_k = 1
    /\ esquema = None /\ trie = EmptyTrie /\ inserted = {} /\ n_ops = 0
    /\ IdlePipe /\ IdleSql /\ IdleRev

AplicarSiguiente ==
    /\ pc = "op"
    /\ op_k <= Len(Mapeo)
    /\ op_texto' = AplicarEntrada(op_texto, op_k)
    /\ op_k' = op_k + 1
    /\ UNCHANGED <<pc, op_frase, trieVars, pipeVars, sqlVars, revVars>>

NextOp == AplicarSiguiente

SpecOp == InitOp /\ [][NextOp]_vars

\* the phrase holds the k-th phrase of the nine of the table as whole words
C8_EntryMatches(frase, k) ==
    LET e == << "mayor o igual que", "menor o igual que", "mayor que", "menor que",
                "menor a", "igual a", "igual", "no es", "diferente de" >>[k]
    IN \E j \in 1..Len(frase) : WordMatchAt(frase, j, e)

\* C8: "mayor o igual que" becomes ">=" at the first entry and
\* "menor o igual que" becomes "<=" at the second, and no later entry
\* changes that text again, so the result is exactly ">=" or "<="; a phrase
\* that matches no entry is left as it is by every entry and its result is
\* not one of the valid operators.
C8_NormalizationPrecedence ==
    pc = "op" =>
        /\ (op_frase = "mayor o igual que" /\ op_k > 1) => op_texto = ">="
        /\ (op_frase = "menor o igual que" /\ op_k > 2) => op_texto = "<="
        /\ (\A k \in 1..9 : ~C8_EntryMatches(op_frase, k)) =>
               (op_texto = op_frase /\ op_texto \notin Operadores)

\* every entry of the table has been applied to "mayor o igual que"
C8_Witness ==
    /\ pc = "op" /\ op_frase = "mayor o igual que"
    /\ op_k = Len(Mapeo) + 1 /\ op_texto = ">="

(***************************************************************************)
(* analisis_lexico                                                         *)
(***************************************************************************)

Acciones ==
    {"muéstrame", "muestrame", "mostrar", "muestra", "dame", "dámelos", "dámelas",
     "enséñame", "ensename", "quiero", "consultar", "consulta", "ver", "visualizar",
     "verifica", "explora", "lista", "listar", "recupera", "recuperar", "busca",
     "buscar", "obtén", "obtener", "extrae", "extraer", "filtra", "filtrar",
     "accede", "acceder", "selecciona", "seleccionar", "deseo", "necesito"}

Cuantificadores ==
    {"todos", "todas", "los", "las", "algunos", "algunas", "ninguno", "ninguna",
     "cada", "varios", "cualquier", "cualquiera", "muchos", "muchas", "pocos", "pocas",
     "uno", "una", "el", "la", "este", "esta", "estos", "estas"}

Conectores ==
    {"que", "donde", "cuyo", "cuyos", "cual", "cuales", "si", "cuando", "mientras",
     "aunque", "y", "o"}

\* the lexer's own set "operadores"
OperadoresLexico == {"=", ">", "<", ">=", "<=", "!=", "<>"}

IndicadoresEntidad == {"tabla", "tablas", "base", "bases", "entidad", "entidades"}

IndicadoresAtributo == {"columna", "columnas", "campo", "campos", "atributo", "atributos"}

\* the if/elif chain that classifies one word
Clasificar(palabra) ==
    IF palabra \in Acciones THEN "ACCION"
    ELSE IF palabra \in Cuantificadores THEN "CUANTIFICADOR"
    ELSE IF palabra \in Conectores THEN "CONECTOR"
    ELSE IF palabra \in OperadoresLexico THEN "OPERADOR"
    ELSE IF palabra \in IndicadoresEntidad THEN "INDICADOR_ENTIDAD"
    ELSE IF palabra \in IndicadoresAtributo THEN "INDICADOR_ATRIBUTO"
    ELSE "PALABRA"

RECURSIVE Limpiar(_)
\* [p.strip(string.punctuation) for p in palabras if p.strip(string.punctuation)]
Limpiar(palabras) ==
    IF palabras = <<>> THEN <<>>
    ELSE LET p == Strip(Head(palabras), Punctuation) IN
         (IF p # "" THEN <<p>> ELSE <<>>) \o Limpiar(Tail(palabras))

\* analisis_lexico(texto): the list of (tipo, valor) pairs
analisis_lexico(t) ==
    LET palabras == Limpiar(Split(Lower(t))) IN
    [k \in 1..Len(palabras) |-> <<Clasificar(palabras[k]), palabras[k]>>]

(***************************************************************************)
(* analisis_sintactico                                                     *)
(***************************************************************************)

\* tokens[k][0] and tokens[k][1] for a 0-based index k
Tipo(toks, k) == toks[k + 1][1]
Valor(toks, k) == toks[k + 1][2]

RECURSIVE UnirDesde(_, _, _, _)
\* the loop of unir_fecha, with "partes" joined so far and i at k
UnirDesde(toks, inicio, k, partes) ==
    IF k < Len(toks)
    THEN LET posible_fecha == Join(Append(partes, Valor(toks, k)), " ") IN
         IF es_fecha(posible_fecha) THEN [fecha |-> posible_fecha, saltos |-> k - inicio + 1]
         ELSE UnirDesde(toks, inicio, k + 1, Append(partes, Valor(toks, k)))
    ELSE [fecha |-> None, saltos |-> 0]

\* unir_fecha(tokens, inicio)
unir_fecha(toks, inicio) == UnirDesde(toks, inicio, inicio, <<>>)

EstructuraInicial ==
    [accion |-> None, entidad |-> None, atributos_mostrar |-> <<>>, condiciones |-> <<>>]

ConCondicion(e, a, o, v) == [e EXCEPT !.condiciones = Append(@, Cond(a, o, v))]

TablasValidas == {"clientes", "productos", "ventas"}

AtributosValidos == {"nombre", "edad", "id", "dept", "precio", "fecha"}

RECURSIVE Explorar(_, _, _)
\* the inner "while j < len(tokens) - 2" of the donde/que branch: the
\* structure and j when it ends
Explorar(toks, j, e) ==
    IF j < Len(toks) - 2
    THEN IF /\ Tipo(toks, j) = "PALABRA" /\ Tipo(toks, j + 1) = "PALABRA"
            /\ Tipo(toks, j + 2) = "PALABRA"
            /\ ReemplazarOperadores(Valor(toks, j + 1) \o " " \o Valor(toks, j + 2))
                   \in Operadores
            /\ j + 3 < Len(toks)
         THEN Explorar(toks, j + 4,
                  ConCondicion(e, Valor(toks, j),
                      ReemplazarOperadores(Valor(toks, j + 1) \o " " \o Valor(toks, j + 2)),
                      Valor(toks, j + 3)))
         ELSE Explorar(toks, j + 1, e)
    ELSE [i |-> j, e |-> e]

\* the if/elif chain from "Acción principal" on, with the final "i += 1"
Cadena(toks, k, e) ==
    LET tipo == Tipo(toks, k)
        valor == Valor(toks, k)
        n == Len(toks)
    IN
    IF tipo = "ACCION" /\ e.accion = None
    THEN [i |-> k + 1, e |-> [e EXCEPT !.accion = valor]]
    ELSE IF tipo = "INDICADOR_ENTIDAD"
    THEN IF k + 1 < n /\ Tipo(toks, k + 1) = "PALABRA"
         THEN [i |-> k + 2, e |-> [e EXCEPT !.entidad = Valor(toks, k + 1)]]
         ELSE [i |-> k + 1, e |-> e]
    ELSE IF tipo = "PALABRA" /\ e.entidad = None
    THEN IF valor \in TablasValidas
         THEN [i |-> k + 1, e |-> [e EXCEPT !.entidad = valor]]
         ELSE IF valor \in AtributosValidos
         THEN [i |-> k + 1, e |-> [e EXCEPT !.atributos_mostrar = Append(@, valor)]]
         ELSE [i |-> k + 1, e |-> e]
    ELSE IF tipo = "CONECTOR" /\ valor \in {"donde", "que"}
    THEN Explorar(toks, k + 1, e)
    ELSE IF valor = "con" /\ k + 4 < n
    THEN LET operador ==
                 ReemplazarOperadores(Valor(toks, k + 2) \o " " \o Valor(toks, k + 3))
         IN IF operador \in Operadores
            THEN [i |-> k + 5,
                  e |-> ConCondicion(e, Valor(toks, k + 1), operador, Valor(toks, k + 4))]
            ELSE [i |-> k + 1, e |-> e]
    ELSE IF valor = "de" /\ k > 0 /\ Tipo(toks, k - 1) = "PALABRA"
    THEN IF ~(k + 1 < n /\ es_fecha(Valor(toks, k + 1)))
         THEN LET e1 == IF e.entidad = None
                        THEN [e EXCEPT !.entidad = Valor(toks, k - 1)] ELSE e
              IN IF k + 1 < n /\ Tipo(toks, k + 1) = "PALABRA"
                 THEN [i |-> k + 2,
                       e |-> ConCondicion(e1, "dept", "=", RStrip(Valor(toks, k + 1), {"."}))]
                 ELSE [i |-> k + 1, e |-> e1]
         ELSE [i |-> k + 1, e |-> e]
    ELSE IF valor \in {"llamado", "llamados", "llamada"} /\ k > 0
            /\ Tipo(toks, k - 1) = "PALABRA"
    THEN LET e1 == IF e.entidad = None
                   THEN [e EXCEPT !.entidad = Valor(toks, k - 1)] ELSE e
         IN IF k + 1 < n
            THEN [i |-> k + 2, e |-> ConCondicion(e1, "nombre", "=", Valor(toks, k + 1))]
            ELSE [i |-> k + 1, e |-> e1]
    ELSE IF (valor = "llama" \/ valor = "llaman") /\ k >= 2 /\ Valor(toks, k - 1) = "se"
    THEN LET e1 == IF e.entidad = None /\ k >= 3
                   THEN [e EXCEPT !.entidad = Valor(toks, k - 3)] ELSE e
         IN IF k + 1 < n
            THEN [i |-> k + 2, e |-> ConCondicion(e1, "nombre", "=", Valor(toks, k + 1))]
            ELSE [i |-> k + 1, e |-> e1]
    ELSE [i |-> k + 1, e |-> e]

\* an iteration whose date branch also steps over the token after the date
IteracionFechaDoble(toks, k, e) ==
    IF es_fecha(Valor(toks, k))
    THEN [i |-> k + 2, e |-> ConCondicion(e, "fecha", "=", Valor(toks, k))]
    ELSE IF /\ Valor(toks, k) = "de" /\ k > 1 /\ Valor(toks, k - 1) = "en"
            /\ unir_fecha(toks, k - 1).fecha # None
         THEN [i |-> k + unir_fecha(toks, k - 1).saltos,
               e |-> ConCondicion(e, "fecha", "=", unir_fecha(toks, k - 1).fecha)]
         ELSE Cadena(toks, k, e)

\* one iteration of "while i < len(tokens)": the cursor and the structure
\* after it
Iteracion(toks, k, e) ==
    IF es_fecha(Valor(toks, k))
    THEN [i |-> k + 1, e |-> ConCondicion(e, "fecha", "=", Valor(toks, k))]
    ELSE IF /\ Valor(toks, k) = "de" /\ k > 1 /\ Valor(toks, k - 1) = "en"
            /\ unir_fecha(toks, k - 1).fecha # None
         THEN [i |-> k + unir_fecha(toks, k - 1).saltos,
               e |-> ConCondicion(e, "fecha", "=", unir_fecha(toks, k - 1).fecha)]
         ELSE Cadena(toks, k, e)

RECURSIVE IterarDesde(_, _, _)
\* analisis_sintactico(tokens): the structure returned
IterarDesde(toks, k, e) ==
    IF k < Len(toks)
    THEN IterarDesde(toks, Iteracion(toks, k, e).i, Iteracion(toks, k, e).e)
    ELSE e

analisis_sintactico(toks) == IterarDesde(toks, 0, EstructuraInicial)

(***************************************************************************)
(* difflib.get_close_matches, as revisar_y_sugerir_traduccion calls it     *)
(***************************************************************************)

\* the characters of the words compared, in code point order
CodeOrder == "-.0123456789_abcdefghijklmnopqrstuvwxyzáéíñóú"

CodeRank(c) == CHOOSE k \in 1..Len(CodeOrder) : Ch(CodeOrder, k) = c

\* a < b for Python strings
StrLess(a, b) ==
    \E k \in 1..(Len(b)) :
        /\ k - 1 <= Len(a)
        /\ SubSeq(a, 1, k - 1) = SubSeq(b, 1, k - 1)
        /\ (Len(a) < k \/ CodeRank(Ch(a, k)) < CodeRank(Ch(b, k)))

\* the common blocks <<i, j, k>>: a[i..i+k-1] = b[j..j+k-1], k >= 1
Blocks(a, b) ==
    {t \in (1..Len(a)) \X (1..Len(b)) \X (1..Len(a)) :
        /\ t[1] + t[3] - 1 <= Len(a) /\ t[2] + t[3] - 1 <= Len(b)
        /\ Ch(a, t[1]) = Ch(b, t[2])
        /\ SubSeq(a, t[1], t[1] + t[3] - 1) = SubSeq(b, t[2], t[2] + t[3] - 1)}

\* SequenceMatcher.find_longest_match without junk: of the blocks B the
\* longest, of those the one that starts earliest in a, of those the
\* earliest in b
LongestMatch(B) ==
    CHOOSE t \in B : \A u \in B :
        \/ u[3] < t[3]
        \/ (u[3] = t[3] /\ (t[1] < u[1] \/ (t[1] = u[1] /\ t[2] <= u[2])))

RECURSIVE Matches(_, _)
\* the total size of SequenceMatcher(a=a, b=b).get_matching_blocks()
Matches(a, b) ==
    LET B == Blocks(a, b) IN
    IF B = {} THEN 0
    ELSE LET t == LongestMatch(B) IN
         t[3] + Matches(SubSeq(a, 1, t[1] - 1), SubSeq(b, 1, t[2] - 1))
              + Matches(SubSeq(a, t[1] + t[3], Len(a)), SubSeq(b, t[2] + t[3], Len(b)))

\* the occurrences of c among the first n characters of s
Count(s, n, c) == Cardinality({k \in 1..n : Ch(s, k) = c})

\* the matches quick_ratio counts: the characters of a, each as often as
\* b still has it
QuickMatches(a, b) ==
    Cardinality({k \in 1..Len(a) : Count(a, k, Ch(a, k)) <= Count(b, Len(b), Ch(a, k))})

\* _calculate_ratio(matches, length) >= cutoff for the cutoff 0.6 of the call
RatioAtLeastCutoff(matches, length) ==
    IF length = 0 THEN TRUE ELSE 10 * matches >= 3 * length

\* real_quick_ratio, quick_ratio and ratio of SequenceMatcher(a=x, b=word)
\* all reach the cutoff
CloseEnough(x, word) ==
    /\ RatioAtLeastCutoff(IF Len(x) <= Len(word) THEN Len(x) ELSE Len(word),
                          Len(x) + Len(word))
    /\ RatioAtLeastCutoff(QuickMatches(word, x), Len(x) + Len(word))
    /\ RatioAtLeastCutoff(Matches(x, word), Len(x) + Len(word))

\* (score(x), x) > (score(y), y) as heapq.nlargest compares the results,
\* for the match counts m of the words against a word of length n
Better(x, y, m, n) ==
    \/ m[x] * (Len(y) + n) > m[y] * (Len(x) + n)
    \/ (m[x] * (Len(y) + n) = m[y] * (Len(x) + n) /\ StrLess(y, x))

RECURSIVE Largest(_, _, _, _)
\* heapq.nlargest(k, result): the k best of the set of words, best first
Largest(S, k, m, n) ==
    IF S = {} \/ k = 0 THEN <<>>
    ELSE LET x == CHOOSE x \in S : \A y \in S \ {x} : Better(x, y, m, n)
         IN <<x>> \o Largest(S \ {x}, k - 1, m, n)

\* the parameter n = 5 of the call
NSugerencias == 5

\* get_close_matches(word, possibilities, n=5, cutoff=0.6)
get_close_matches(word, possibilities) ==
    LET S == {x \in Range(possibilities) : CloseEnough(x, word)}
        m == [x \in S |-> Matches(x, word)]
    IN Largest(S, NSugerencias, m, Len(word))

(***************************************************************************)
(* generate_dataset_and_trie                                               *)
(***************************************************************************)

DataTypeKeywords ==
    {"int", "integer", "float", "double", "string", "char", "boolean",
     "bool", "void", "long", "short", "byte", "decimal", "date", "time",
     "datetime", "array", "list", "dict", "dictionary", "set", "tuple",
     "object", "class"}

RECURSIVE CargarDesde(_, _, _, _)
\* the loop over the words of the file: the Trie after the k-th word on
CargarDesde(palabras, k, t, processed_words) ==
    IF k > Len(palabras) THEN t
    ELSE LET cleaned_word == Strip(Strip(palabras[k], Punctuation), Whitespace) IN
         IF /\ cleaned_word # "" /\ cleaned_word \notin DataTypeKeywords
            /\ cleaned_word \notin processed_words
         THEN CargarDesde(palabras, k + 1, TrieInsert(t, cleaned_word),
                          processed_words \cup {cleaned_word})
         ELSE CargarDesde(palabras, k + 1, t, processed_words)

\* generate_dataset_and_trie on a file with this content: the words are
\* split at white space and at '#' (the empty pieces are dropped by the loop)
generate_dataset_and_trie(contenido) ==
    CargarDesde(Split(Replace(Lower(contenido), "#", " ")), 1, EmptyTrie, {})

(***************************************************************************)
(* revisar_y_sugerir_traduccion                                            *)
(***************************************************************************)

Rev(tipo, original, indice) == [tipo |-> tipo, original |-> original, indice |-> indice]

RECURSIVE RevisarMostrar(_, _, _)
\* "2. Revisar atributos a mostrar", from index k (0-based) on
RevisarMostrar(e, t, k) ==
    IF k >= Len(e.atributos_mostrar) THEN <<>>
    ELSE (IF ~TrieSearch(t, e.atributos_mostrar[k + 1])
          THEN <<Rev("atributo_mostrar", e.atributos_mostrar[k + 1], k)>> ELSE <<>>)
         \o RevisarMostrar(e, t, k + 1)

RECURSIVE RevisarCondiciones(_, _, _)
\* "3. Revisar atributos en las condiciones", from index k (0-based) on
RevisarCondiciones(e, t, k) ==
    IF k >= Len(e.condiciones) THEN <<>>
    ELSE (IF e.condiciones[k + 1].atributo # "" /\ ~TrieSearch(t, e.condiciones[k + 1].atributo)
          THEN <<Rev("atributo_condicion", e.condiciones[k + 1].atributo, k)>> ELSE <<>>)
         \o RevisarCondiciones(e, t, k + 1)

\* the list "revisiones" when the interactive part starts
Revisiones(e, t) ==
    (IF e.entidad # None /\ e.entidad # "" /\ ~TrieSearch(t, e.entidad)
     THEN <<Rev("entidad", e.entidad, 0)>> ELSE <<>>)
    \o RevisarMostrar(e, t, 0) \o RevisarCondiciones(e, t, 0)

\* opciones = [palabra_a_revisar] + sugerencias
Opciones(rev, t) == <<rev.original>> \o get_close_matches(rev.original, GetAllWords(t))

\* a reading of the response that drops a leading sign
ParseIntSinSigno(s) ==
    LET u == Strip(s, Whitespace)
        d == IF u # "" /\ Ch(u, 1) \in {"-", "+"} THEN SubSeq(u, 2, Len(u)) ELSE u
    IN IF IsDigit(d) THEN [ok |-> TRUE, val |-> ToNat(d)] ELSE [ok |-> FALSE, val |-> 0]

\* int(seleccion_str): ok is FALSE where it raises ValueError
ParseInt(s) ==
    LET u == Strip(s, Whitespace)
        neg == u # "" /\ Ch(u, 1) = "-"
        d == IF u # "" /\ Ch(u, 1) \in {"-", "+"} THEN SubSeq(u, 2, Len(u)) ELSE u
    IN IF IsDigit(d) THEN [ok |-> TRUE, val |-> IF neg THEN 0 - ToNat(d) ELSE ToNat(d)]
       ELSE [ok |-> FALSE, val |-> 0]

\* one pass of the "while seleccion < 1 or seleccion > len(opciones)" loop
\* on the response s leaves the loop
SeleccionValida(s, ops) ==
    ParseInt(s).ok /\ ~(ParseInt(s).val < 1 \/ ParseInt(s).val > Len(ops))

\* an application that updates the structure only and regenerates the SQL
\* for a condition alone
AplicarSoloEstructura(rev, palabra_elegida, e, sql) ==
    IF rev.tipo = "entidad"
    THEN [e |-> [e EXCEPT !.entidad = palabra_elegida], sql |-> sql]
    ELSE IF rev.tipo = "atributo_mostrar"
    THEN [e |-> [e EXCEPT !.atributos_mostrar[rev.indice + 1] = palabra_elegida],
          sql |-> ReSubWord(sql, e.atributos_mostrar[rev.indice + 1], palabra_elegida, 1)]
    ELSE LET e1 == [e EXCEPT !.condiciones[rev.indice + 1].atributo = palabra_elegida]
         IN [e |-> e1, sql |-> generar_sql(e1)]

\* the structure and the SQL after the revision is applied with the word
\* chosen
Aplicar(rev, palabra_elegida, e, sql) ==
    IF rev.tipo = "entidad"
    THEN [e |-> [e EXCEPT !.entidad = palabra_elegida],
          sql |-> Replace(sql, "FROM " \o e.entidad, "FROM " \o palabra_elegida)]
    ELSE IF rev.tipo = "atributo_mostrar"
    THEN [e |-> [e EXCEPT !.atributos_mostrar[rev.indice + 1] = palabra_elegida],
          sql |-> ReSubWord(sql, e.atributos_mostrar[rev.indice + 1], palabra_elegida, 1)]
    ELSE LET e1 == [e EXCEPT !.condiciones[rev.indice + 1].atributo = palabra_elegida]
         IN [e |-> e1, sql |-> generar_sql(e1)]

(***************************************************************************)
(* Spec: the main program on one input text and one schema file            *)
(***************************************************************************)

\* the rejected responses explored for one revision
MaxReintentos == 1

\* the schema file the main program writes when there is none
EsquemaEjemplo == "clientes productos ventas nombre edad id dept precio fecha cantidad"

\* the schema files explored; None: the file cannot be read
Esquemas ==
    {EsquemaEjemplo, "ventas nombres#edades INT Fecha. ventas, edad_min clientela", None}

Inicios == {"", "Dame,"}

Sujetos ==
    {"los clientes", "tabla bontas", "nombre nombre tabla ventas",
     "el nombre y edad de la tabla cliontes", "cliente"}

Filtros ==
    {"", "donde la edad es mayor a 30", "donde edat mayor que 30",
     "donde edat menor a 18 y nombe igual a Lucia.", "con edat igual a 5 años",
     "llamado lucia", "en de 21 de julio de 2025",
     "de 21 de julio de 2025 que se llama pedro", "de ventas. en 2025-07-21",
     "que precio mayor o igual que 3.5"}

\* the example of the main program, and texts for single parser rules
OtrosTextos ==
    {"muéstrame los clientes donde la edad es mayor a 30",
     "muéstrame las bontas que se realizaron en 21 de julio de 2025 donde la edat es mayor a 30",
     "muéstrame el nombe de los cliontes", "cliente llamado lucia",
     "edad >= 30 <> x", "", "tabla x en de 1 de mayo de 2020",
     "ventas x se llama", "a b se llaman y z", "ventas x de 21/07/2025",
     "ventas con a menor a 3 4", "ventas donde a igual a b c no es d e",
     "tabla tabla x", "ventas x llamada",
     "ventas en 21 de julio de 2025", "en 21 de julio de 2025"}

Unir(a, b) == IF a = "" THEN b ELSE IF b = "" THEN a ELSE a \o " " \o b

Textos ==
    {Unir(t[1], Unir(t[2], t[3])) : t \in Inicios \X Sujetos \X Filtros} \cup OtrosTextos

\* what input() returns
Respuestas == {"", "x", "1.0", "-1", "0", "1", "2", "3", "4", " 2 "}

Init ==
    /\ pc = "lexico"
    /\ texto \in Textos
    /\ esquema \in Esquemas
    /\ trie = IF esquema = None THEN EmptyTrie ELSE generate_dataset_and_trie(esquema)
    /\ inserted = {} /\ n_ops = 0
    /\ tokens = <<>> /\ i = 0 /\ estructura = EstructuraInicial
    /\ IdleSql /\ IdleRev /\ IdleOp

\* tokens = analisis_lexico(texto), and the start of analisis_sintactico
Lexico ==
    /\ pc = "lexico"
    /\ tokens' = analisis_lexico(texto)
    /\ i' = 0
    /\ estructura' = EstructuraInicial
    /\ pc' = "sintactico"
    /\ UNCHANGED <<trieVars, texto, sqlVars, revVars, opVars>>

\* one iteration of the loop of analisis_sintactico
Sintactico ==
    /\ pc = "sintactico"
    /\ i < Len(tokens)
    /\ i' = Iteracion(tokens, i, estructura).i
    /\ estructura' = Iteracion(tokens, i, estructura).e
    /\ UNCHANGED <<pc, trieVars, texto, tokens, sqlVars, revVars, opVars>>

\* analisis_sintactico returns and compilador_nl2sql_texto calls generar_sql
Generar ==
    /\ pc = "sintactico"
    /\ i >= Len(tokens)
    /\ consulta_sql' = generar_sql(estructura)
    /\ estructura' = EstructuraTrasGenerar(estructura)
    /\ llamadas' = llamadas + 1
    /\ pc' = "revisar"
    /\ UNCHANGED <<trieVars, texto, tokens, i, revVars, opVars>>

\* revisar_y_sugerir_traduccion up to its first input(), or to its return
\* when nothing is to be revised
Revisar ==
    /\ pc = "revisar"
    /\ esquema # None
    /\ revisiones' = Revisiones(estructura, trie)
    /\ nueva_sql_query' = consulta_sql
    /\ IF Revisiones(estructura, trie) = <<>>
       THEN pc' = "done" /\ r' = 0 /\ opciones' = <<>>
       ELSE /\ pc' = "elegir" /\ r' = 1
            /\ opciones' = Opciones(Revisiones(estructura, trie)[1], trie)
    /\ UNCHANGED <<trieVars, pipeVars, sqlVars, elecciones, reintentos, respuesta, opVars>>

\* no Trie: sql_final = sql_generado
SinDiccionario ==
    /\ pc = "revisar"
    /\ esquema = None
    /\ nueva_sql_query' = consulta_sql
    /\ pc' = "done"
    /\ UNCHANGED <<trieVars, pipeVars, sqlVars, revisiones, r, elecciones, reintentos,
                   respuesta, opciones, opVars>>

\* input() returns s: the loop either asks again or ends, and then the
\* revision is applied and the next one is prompted (or the function returns)
Responder(s) ==
    /\ pc = "elegir"
    /\ respuesta' = s
    /\ IF SeleccionValida(s, opciones)
       THEN LET palabra_elegida == opciones[ParseInt(s).val]
                res == Aplicar(revisiones[r], palabra_elegida, estructura, nueva_sql_query)
            IN /\ estructura' = res.e
               /\ nueva_sql_query' = res.sql
               /\ elecciones' = Append(elecciones,
                      [respuesta |-> s, opciones |-> opciones, elegida |-> palabra_elegida])
               /\ reintentos' = 0
               /\ r' = r + 1
               /\ IF r = Len(revisiones)
                  THEN pc' = "done" /\ opciones' = <<>>
                  ELSE pc' = "elegir" /\ opciones' = Opciones(revisiones[r + 1], trie)
       ELSE /\ reintentos < MaxReintentos
            /\ reintentos' = reintentos + 1
            /\ UNCHANGED <<estructura, nueva_sql_query, elecciones, r, pc, opciones>>
    /\ UNCHANGED <<trieVars, texto, tokens, i, sqlVars, revisiones, opVars>>

Next ==
    \/ Lexico
    \/ Sintactico
    \/ Generar
    \/ Revisar
    \/ SinDiccionario
    \/ \E s \in Respuestas : Responder(s)

Spec == Init /\ [][Next]_vars


(***************************************************************************)
(* Claims about the main program                                           *)
(***************************************************************************)

TextoEjemplo == "muéstrame los clientes donde la edad es mayor a 30"

\* the states after generar_sql has returned
Traducido == pc \in {"revisar", "elegir", "done"}

\* C1: the lexer, the parser and the SQL generator on "muéstrame los
\* clientes donde la edad es mayor a 30" yield entity "clientes", exactly
\* one condition (edad, >, 30) and the SQL
\* SELECT * FROM clientes WHERE edad > 30.
C1_EndToEnd ==
    (texto = TextoEjemplo /\ Traducido) =>
        /\ estructura.entidad = "clientes"
        /\ Len(estructura.condiciones) = 1
        /\ estructura.condiciones[1].atributo = "edad"
        /\ estructura.condiciones[1].operador = ">"
        /\ estructura.condiciones[1].valor = "30"
        /\ consulta_sql = "SELECT * FROM clientes WHERE edad > 30"

\* s holds p as a whole word-like piece: p, then the end or a blank
NombraFrom(s, p) ==
    \E k \in 1..Len(s) :
        /\ HasAt(s, k, "FROM " \o p)
        /\ (k + Len(p) + 5 > Len(s) \/ Ch(s, k + Len(p) + 5) = " ")

\* the words the schema Trie contains
EnTrie(w) == w \in Range(GetAllWords(trie))

\* the response s is a choice inside 1..n
EsEleccion(s, n) ==
    \E k \in 1..n : Strip(s, Whitespace) \in {NatStr(k), "+" \o NatStr(k)}

\* the number a response that is a choice stands for
Eleccion(s, n) ==
    CHOOSE k \in 1..n : Strip(s, Whitespace) \in {NatStr(k), "+" \o NatStr(k)}

\* an entity Revision is recorded exactly for an entity the Trie lacks
C4_Recorded ==
    (pc = "revisar" /\ pc' # "revisar" /\ esquema # None) =>
        IF estructura.entidad \notin {None, ""} /\ ~EnTrie(estructura.entidad)
        THEN /\ revisiones' # <<>>
             /\ revisiones'[1].tipo = "entidad"
             /\ revisiones'[1].original = estructura.entidad
             /\ pc' = "elegir" /\ r' = 1
             /\ opciones'[1] = estructura.entidad
        ELSE \A k \in 1..Len(revisiones') : revisiones'[k].tipo # "entidad"

\* a choice for the entity Revision sets the entity and the FROM clause
C4_Applied ==
    (/\ pc = "elegir" /\ revisiones[r].tipo = "entidad"
     /\ EsEleccion(respuesta', Len(opciones))) =>
        LET elegida == opciones[Eleccion(respuesta', Len(opciones))] IN
        /\ estructura'.entidad = elegida
        /\ NombraFrom(nueva_sql_query', elegida)
        /\ elegida # estructura.entidad => ~NombraFrom(nueva_sql_query', estructura.entidad)

\* C4: when the entity of the structured query is not in the schema Trie the
\* Corrector records an entity Revision for it (for "bontas" and a Trie with
\* "ventas", "ventas" is among the options); when a word of the options is
\* chosen the entity becomes that word and the FROM clause of the SQL names
\* it instead of the old entity, and the SQL returned still does.
C4_EntityCorrection ==
    /\ [][C4_Recorded /\ C4_Applied]_vars
    /\ [](pc = "elegir" /\ r = 1 /\ revisiones[1].original = "bontas"
            /\ esquema = EsquemaEjemplo => "ventas" \in Range(opciones))
    /\ [](pc = "done" /\ revisiones # <<>> /\ revisiones[1].tipo = "entidad" =>
            /\ NombraFrom(nueva_sql_query, elecciones[1].elegida)
            /\ estructura.entidad = elecciones[1].elegida)

C4_Witness ==
    /\ pc = "done" /\ texto = "tabla bontas" /\ esquema = EsquemaEjemplo
    /\ revisiones = <<Rev("entidad", "bontas", 0)>>
    /\ elecciones = <<[respuesta |-> "2", opciones |-> <<"bontas", "ventas">>,
                       elegida |-> "ventas"]>>
    /\ estructura.entidad = "ventas"
    /\ nueva_sql_query = "SELECT * FROM ventas"


\* a response that is not a choice is asked again in place; a response that
\* is a choice applies the Revision with the option of that number
C9_Step ==
    pc = "elegir" =>
        IF EsEleccion(respuesta', Len(opciones))
        THEN /\ r' = r + 1
             /\ elecciones' = Append(elecciones,
                    [respuesta |-> respuesta', opciones |-> opciones,
                     elegida |-> opciones[Eleccion(respuesta', Len(opciones))]])
             /\ estructura' = Aplicar(revisiones[r],
                    opciones[Eleccion(respuesta', Len(opciones))],
                    estructura, nueva_sql_query).e
        ELSE /\ estructura' = estructura
             /\ nueva_sql_query' = nueva_sql_query
             /\ r' = r /\ pc' = "elegir"
             /\ revisiones' = revisiones /\ opciones' = opciones
             /\ elecciones' = elecciones

\* the Revision awaiting a choice offers its original text as option 1, and
\* the Revisions before it are the ones applied, each with a choice in range
C9_Prompt ==
    pc = "elegir" =>
        /\ r \in 1..Len(revisiones)
        /\ opciones[1] = revisiones[r].original
        /\ Len(elecciones) = r - 1

C9_Applied ==
    \A k \in 1..Len(elecciones) :
        /\ EsEleccion(elecciones[k].respuesta, Len(elecciones[k].opciones))
        /\ elecciones[k].opciones[1] = revisiones[k].original

\* the Corrector has returned exactly when every Revision has its choice
C9_Returns ==
    pc \in {"elegir", "done"} => (pc = "done" <=> Len(elecciones) = Len(revisiones))

\* C9: while a Revision awaits a choice, a response that is not a number or
\* is a number outside 1..(number of options) changes neither the structured
\* query nor the current SQL and the same Revision is prompted again; a
\* Revision is applied only with a choice inside 1..(number of options),
\* option 1 being the original text; and the Corrector returns if and only
\* if every Revision has received a valid choice.
C9_RetryInPlace ==
    /\ [][C9_Step]_vars
    /\ [](C9_Prompt /\ C9_Applied /\ C9_Returns)

\* an out-of-range response was rejected, then the original was kept
C9_Witness ==
    /\ pc = "done" /\ reintentos = 0
    /\ Len(revisiones) >= 2
    /\ Len(elecciones) = Len(revisiones)
    /\ elecciones[1].respuesta = "1"
    /\ elecciones[1].elegida = revisiones[1].original
    /\ elecciones[2].respuesta = " 2 "

\* a rejected response: the same Revision is still awaiting its choice
C9_WitnessRetry ==
    /\ pc = "elegir" /\ reintentos = 1 /\ respuesta \in {"x", "0", "-1", "4", "1.0", ""}
    /\ r = 2 /\ Len(elecciones) = 1

\* C10: the SQL the Corrector returns equals the SQL generar_sql produces
\* from the structured query as the Corrector has mutated it, for every Trie
\* and every sequence of valid choices.
C10_Consistent ==
    pc = "done" => nueva_sql_query = generar_sql(estructura)


(***************************************************************************)
(* Claims about the parser and the lexer                                   *)
(***************************************************************************)

\* the parser's cursor is on a token of the loop
EnCursor == pc = "sintactico" /\ i < Len(tokens)

Llamados == {"llamado", "llamados", "llamada"}

\* the step the rule for "llamado" is to take from a cursor on such a token
\* that follows a PALABRA
C11_Rule ==
    (/\ EnCursor /\ i > 0
     /\ Valor(tokens, i) \in Llamados /\ Tipo(tokens, i - 1) = "PALABRA") =>
        /\ estructura'.entidad =
               IF estructura.entidad = None THEN Valor(tokens, i - 1)
               ELSE estructura.entidad
        /\ IF i + 1 < Len(tokens)
           THEN /\ estructura'.condiciones =
                       Append(estructura.condiciones,
                              Cond("nombre", "=", Valor(tokens, i + 1)))
                /\ i' = i + 2
           ELSE /\ estructura'.condiciones = estructura.condiciones
                /\ i' = i + 1

\* C11: whenever the cursor is on "llamado", "llamados" or "llamada" and the
\* preceding token is a PALABRA, the entity, if not yet recorded, becomes the
\* preceding word, a condition nombre = <next token> is appended when there
\* is a next token, and the cursor skips that token; "cliente llamado lucia"
\* yields entity "cliente" and the single condition (nombre, =, lucia).
C11_LlamadoRule ==
    /\ [][C11_Rule]_vars
    /\ [](texto = "cliente llamado lucia" /\ Traducido =>
            /\ estructura.entidad = "cliente"
            /\ estructura.condiciones = <<Cond("nombre", "=", "lucia")>>)


RECURSIVE CursorDesde(_, _, _)
\* the positions the cursor takes from position k and structure e on
CursorDesde(toks, k, e) ==
    IF k >= Len(toks) THEN {}
    ELSE {k} \cup CursorDesde(toks, Iteracion(toks, k, e).i, Iteracion(toks, k, e).e)

\* the positions the cursor of analisis_sintactico visits
Visitados(toks) == CursorDesde(toks, 0, EstructuraInicial)

\* the five tokens after position k joined by blanks
FechaTras(toks, k) ==
    Join(<<Valor(toks, k + 1), Valor(toks, k + 2), Valor(toks, k + 3),
           Valor(toks, k + 4), Valor(toks, k + 5)>>, " ")

\* a spelled-out date introduced by "en" at position k:
\* "en", D, "de", <month-word>, "de", YYYY
FraseFecha(toks, k) ==
    /\ k + 5 < Len(toks)
    /\ Valor(toks, k) = "en"
    /\ Valor(toks, k + 2) = "de" /\ Valor(toks, k + 4) = "de"
    /\ es_fecha(FechaTras(toks, k))

\* the conditions of e that are c
Veces(e, c) == Cardinality({n \in 1..Len(e.condiciones) : e.condiciones[n] = c})

\* C12: when the tokens hold a spelled-out date introduced by "en" ("en", D,
\* "de", <month-word>, "de", YYYY) at a position the cursor visits, the
\* parser joins the date tokens and the structure it returns holds exactly
\* one condition fecha = "D de <month-word> de YYYY".
C12_MultiTokenDate ==
    Traducido =>
        \A k \in Visitados(tokens) :
            FraseFecha(tokens, k) =>
                Veces(estructura, Cond("fecha", "=", FechaTras(tokens, k))) = 1


(***************************************************************************)
(* SpecParser: analisis_lexico and analisis_sintactico on short texts      *)
(***************************************************************************)

\* the words of the short texts
MaxPalabras == 3

\* words that select each branch of the parser, an operator phrase and a date
Vocabulario ==
    {"de", "en", "con", "que", "tabla", "llamado", "se", "llama",
     "igual", "a", "2025-07-21"}

TextosCortos == {Join(s, " ") : s \in SeqsUpTo(Vocabulario, MaxPalabras)}

InitParser ==
    /\ pc = "lexico"
    /\ texto \in TextosCortos \cup Textos
    /\ esquema = None /\ trie = EmptyTrie /\ inserted = {} /\ n_ops = 0
    /\ tokens = <<>> /\ i = 0 /\ estructura = EstructuraInicial
    /\ IdleSql /\ IdleRev /\ IdleOp

NextParser ==
    \/ Lexico
    \/ Sintactico
    \/ Generar

SpecParser == InitParser /\ [][NextParser]_vars


RECURSIVE LecturasUnir(_, _)
\* the token indices unir_fecha reads from index k on
LecturasUnir(toks, k) ==
    IF k < Len(toks) /\ unir_fecha(toks, k).fecha = None
    THEN k..(Len(toks) - 1)
    ELSE IF k < Len(toks) THEN k..(k + unir_fecha(toks, k).saltos - 1) ELSE {}

RECURSIVE LecturasExplorar(_, _)
\* the token indices the scan after "donde"/"que" reads from index j on
LecturasExplorar(toks, j) ==
    IF j < Len(toks) - 2
    THEN IF Tipo(toks, j) # "PALABRA" THEN {j} \cup LecturasExplorar(toks, j + 1)
         ELSE IF Tipo(toks, j + 1) # "PALABRA"
         THEN {j, j + 1} \cup LecturasExplorar(toks, j + 1)
         ELSE IF Tipo(toks, j + 2) # "PALABRA"
         THEN {j, j + 1, j + 2} \cup LecturasExplorar(toks, j + 1)
         ELSE IF /\ ReemplazarOperadores(Valor(toks, j + 1) \o " " \o Valor(toks, j + 2))
                        \in Operadores
                 /\ j + 3 < Len(toks)
         THEN {j, j + 1, j + 2, j + 3} \cup LecturasExplorar(toks, j + 4)
         ELSE {j, j + 1, j + 2} \cup LecturasExplorar(toks, j + 1)
    ELSE {}

\* the token indices the if/elif chain reads at cursor k, conditions included
LecturasCadena(toks, k, e) ==
    LET tipo == Tipo(toks, k)
        valor == Valor(toks, k)
        n == Len(toks)
        sig == IF k + 1 < n THEN {k + 1} ELSE {}
    IN
    IF tipo = "ACCION" /\ e.accion = None THEN {}
    ELSE IF tipo = "INDICADOR_ENTIDAD" THEN sig
    ELSE IF tipo = "PALABRA" /\ e.entidad = None THEN {}
    ELSE IF tipo = "CONECTOR" /\ valor \in {"donde", "que"}
    THEN LecturasExplorar(toks, k + 1)
    ELSE IF valor = "con" /\ k + 4 < n THEN (k + 1)..(k + 4)
    ELSE IF valor = "de" /\ k > 0
    THEN {k - 1} \cup (IF Tipo(toks, k - 1) = "PALABRA" THEN sig ELSE {})
    ELSE IF valor \in Llamados /\ k > 0
    THEN {k - 1} \cup (IF Tipo(toks, k - 1) = "PALABRA" THEN sig ELSE {})
    ELSE IF (valor = "llama" \/ valor = "llaman") /\ k >= 2
    THEN {k - 1} \cup
         (IF Valor(toks, k - 1) = "se"
          THEN (IF e.entidad = None /\ k >= 3 THEN {k - 3} ELSE {}) \cup sig
          ELSE {})
    ELSE {}

\* the token indices one iteration of the loop reads at cursor k
Lecturas(toks, k, e) ==
    {k} \cup
    IF es_fecha(Valor(toks, k)) THEN {}
    ELSE IF Valor(toks, k) = "de" /\ k > 1
    THEN {k - 1} \cup
         (IF Valor(toks, k - 1) = "en"
          THEN LecturasUnir(toks, k - 1) \cup
               (IF unir_fecha(toks, k - 1).fecha # None THEN {}
                ELSE LecturasCadena(toks, k, e))
          ELSE LecturasCadena(toks, k, e))
    ELSE LecturasCadena(toks, k, e)

\* one iteration of the parser loop: the cursor strictly increases, stays
\* within the sequence, and reads token indices of the sequence only
C13_Step ==
    EnCursor =>
        /\ i' > i /\ i' <= Len(tokens)
        /\ Lecturas(tokens, i, estructura) \subseteq 0..(Len(tokens) - 1)
        /\ pc' = "sintactico" /\ tokens' = tokens

\* the loop is left as soon as the cursor is at the end of the sequence,
\* and the structure built so far is what is returned
C13_Return ==
    (pc = "sintactico" /\ i >= Len(tokens)) =>
        pc' = "revisar" /\ estructura' = estructura /\ i' = i

\* C13: for every token sequence, in every iteration of the parser loop the
\* cursor strictly increases and never exceeds the sequence length, and
\* every token index read (lookbehinds and lookaheads included) is within
\* bounds; the loop therefore runs at most Len(tokens) iterations, after
\* which the parser returns the structured query analisis_sintactico
\* computes, with the cursor at the end of the sequence.
C13_CursorProgress ==
    /\ [][C13_Step /\ C13_Return]_vars
    /\ [](pc = "sintactico" => i \in 0..Len(tokens))
    /\ [](pc = "revisar" =>
            i = Len(tokens) /\ estructura = analisis_sintactico(tokens))

\* the parser has returned after the scan of "donde" found two conditions
C13_Witness ==
    /\ pc = "revisar" /\ i = Len(tokens)
    /\ texto = "ventas donde a igual a b c no es d e"
    /\ Len(estructura.condiciones) = 2


EsSimboloOperador(w) == w \in OperadoresLexico

EsTokenOperador(t) == t[1] = "OPERADOR"

\* the operator symbols among the words of the input, in input order
SimbolosDe(t) == SelectSeq(Split(t), EsSimboloOperador)

\* C14: every whitespace-separated word of the input that is one of the
\* symbols =, >, <, >=, <=, !=, <> is emitted by the lexer as one token of
\* kind OPERADOR carrying that symbol, in input order, none dropped: the
\* OPERADOR tokens are exactly these words in their order.
C14_OperatorTokens ==
    pc \in {"sintactico", "revisar", "elegir", "done"} =>
        SelectSeq(tokens, EsTokenOperador) =
            [k \in 1..Len(SimbolosDe(texto)) |-> <<"OPERADOR", SimbolosDe(texto)[k]>>]

=============================================================================
